---- MODULE Spec2Model ----
(***************************************************************************)
(* The INI parser of pkg/iniparser.go: a Parser holding                    *)
(* parsedData (section -> key -> value), LoadFromString / parseLines,      *)
(* Set and String.                                                         *)
(*                                                                         *)
(* A Go string is a sequence of one-character strings, so that trimming,   *)
(* prefix tests and splitting are computed character by character.         *)
(* A Go map is a function; the nil map of a zero-value Parser is told      *)
(* apart from an empty allocated map by the Parser's nilMap flag.          *)
(***************************************************************************)
EXTENDS Naturals, Sequences, FiniteSets, TLC

VARIABLES
    p,      \* the Parser
    op,     \* the method called last ("new": none yet)
    data,   \* the text SpecLoad hands to LoadFromString
    args,   \* the arguments of the last Set
    err,    \* the error the last call returned
    ret     \* the text the last String() returned

vars == <<p, op, data, args, err, ret>>

----------------------------------------------------------------------------
(* Bounds of the model *)

\* lines of the text handed to the single load of SpecLoad
MaxLines == 3

\* lines of a text handed to LoadFromString in a sequence of calls (Spec)
MaxCallLines == 1

\* lines of the text handed to the single load of SpecKV
MaxKVLines == 4

----------------------------------------------------------------------------
(* Go strings *)

Str0 == <<>>

\* unicode.IsSpace, for the characters a text of the model can hold
WhiteSpace == {" ", "\t", "\n", "\r", "\f"}

RECURSIVE TrimLeft(_)
TrimLeft(s) ==
    IF s # <<>> /\ Head(s) \in WhiteSpace THEN TrimLeft(Tail(s)) ELSE s

RECURSIVE TrimRight(_)
TrimRight(s) ==
    IF s # <<>> /\ s[Len(s)] \in WhiteSpace
    THEN TrimRight(SubSeq(s, 1, Len(s) - 1))
    ELSE s

\* strings.TrimSpace
TrimSpace(s) == TrimRight(TrimLeft(s))

\* strings.HasPrefix
HasPrefix(s, prefix) ==
    Len(s) >= Len(prefix) /\ SubSeq(s, 1, Len(prefix)) = prefix

\* strings.HasSuffix
HasSuffix(s, suffix) ==
    Len(s) >= Len(suffix)
    /\ SubSeq(s, Len(s) - Len(suffix) + 1, Len(s)) = suffix

\* strings.TrimSuffix
TrimSuffix(s, suffix) ==
    IF HasSuffix(s, suffix) THEN SubSeq(s, 1, Len(s) - Len(suffix)) ELSE s

\* strings.Contains, for a separator of one character
Contains(s, c) == \E i \in 1..Len(s) : s[i] = c

\* index of the first occurrence of c in s (s holds one)
Index(s, c) == CHOOSE i \in 1..Len(s) : s[i] = c /\ \A j \in 1..(i - 1) : s[j] # c

\* strings.Split, for a separator of one character: every field, in order
RECURSIVE Split(_, _)
Split(s, c) ==
    IF ~Contains(s, c)
    THEN <<s>>
    ELSE <<SubSeq(s, 1, Index(s, c) - 1)>>
         \o Split(SubSeq(s, Index(s, c) + 1, Len(s)), c)

----------------------------------------------------------------------------
(* Errors: the package's sentinel values, nil, and a run-time panic *)

Nil == "nil"
ErrSectionIsEmpty == "ErrSectionIsEmpty"
ErrKeyIsEmpty == "ErrKeyIsEmpty"
ErrValueIsEmpty == "ErrValueIsEmpty"
ErrEmptyString == "ErrEmptyString"
ErrKeyNotFound == "ErrKeyNotFound"
ErrSectionNotFound == "ErrSectionNotFound"
ErrCommentOnNewLine == "ErrCommentOnNewLine"
\* not an error value: the call does not return (assignment to an entry of a nil map)
Panic == "panic"

----------------------------------------------------------------------------
(* Go maps *)

\* make(map[string]string), make(map[string]map[string]string)
EmptyMap == <<>>

\* m[k] = v
MapPut(m, k, v) == [x \in DOMAIN m \cup {k} |-> IF x = k THEN v ELSE m[x]]

----------------------------------------------------------------------------
(* parseLines *)

\* KeyOf without the trimming
KeyUntrimmed(keyValuePair) == keyValuePair[1]

\* key := strings.TrimSpace(keyValuePair[0])
KeyOf(keyValuePair) == TrimSpace(keyValuePair[1])

\* value := strings.TrimSpace(keyValuePair[1])
ValueOf(keyValuePair) == TrimSpace(keyValuePair[2])

\* StoreKeyValue without the check of the value
StoreKeyValueAnyValue(pd, currentSection, line) ==
    LET keyValuePair == Split(line, "=")
        key == KeyOf(keyValuePair)
        value == ValueOf(keyValuePair)
    IN  IF key = Str0 THEN [err |-> ErrKeyIsEmpty, m |-> pd]
        ELSE IF currentSection \notin DOMAIN pd THEN [err |-> Panic, m |-> pd]
        ELSE [err |-> Nil,
              m |-> [pd EXCEPT ![currentSection] = MapPut(@, key, value)]]

\* StoreKeyValue keeping the value a key has already
StoreKeyValueKeepsFirst(pd, currentSection, line) ==
    LET keyValuePair == Split(line, "=")
        key == KeyOf(keyValuePair)
        value == ValueOf(keyValuePair)
    IN  IF key = Str0 THEN [err |-> ErrKeyIsEmpty, m |-> pd]
        ELSE IF value = Str0 THEN [err |-> ErrValueIsEmpty, m |-> pd]
        ELSE IF currentSection \notin DOMAIN pd THEN [err |-> Panic, m |-> pd]
        ELSE IF key \in DOMAIN pd[currentSection] THEN [err |-> Nil, m |-> pd]
        ELSE [err |-> Nil,
              m |-> [pd EXCEPT ![currentSection] = MapPut(@, key, value)]]

\* what a key-value line does to the map under construction
StoreKeyValue(pd, currentSection, line) ==
    LET keyValuePair == Split(line, "=")
        key == KeyOf(keyValuePair)
        value == ValueOf(keyValuePair)
    IN  IF key = Str0 THEN [err |-> ErrKeyIsEmpty, m |-> pd]
        ELSE IF value = Str0 THEN [err |-> ErrValueIsEmpty, m |-> pd]
        \* parsedData[currentSection] is a nil map when no header came first
        ELSE IF currentSection \notin DOMAIN pd THEN [err |-> Panic, m |-> pd]
        ELSE [err |-> Nil,
              m |-> [pd EXCEPT ![currentSection] = MapPut(@, key, value)]]

\* the test the loop makes on a line that contains "="
IsCommentLine(line) == HasPrefix(line, <<"#">>) \/ HasPrefix(line, <<";">>)

\* the test the loop makes for a section header
IsHeaderLine(line) == HasPrefix(line, <<"[">>) /\ HasSuffix(line, <<"]">>)

\* SectionNameOf without the trimming of the interior
SectionNameUntrimmed(line) == SubSeq(line, 2, Len(line) - 1)

\* sectionName := strings.TrimSpace(line[1 : len(line)-1])
SectionNameOf(line) == TrimSpace(SubSeq(line, 2, Len(line) - 1))

\* DeclareSection making a new map for the section at every header of its name
DeclareSectionAnew(pd, sectionName) == MapPut(pd, sectionName, EmptyMap)

\* if _, exists := parsedData[currentSection]; !exists { parsedData[currentSection] = make(...) }
DeclareSection(pd, sectionName) ==
    IF sectionName \in DOMAIN pd THEN pd ELSE MapPut(pd, sectionName, EmptyMap)

\* the loop of parseLines from line i on, with the map built so far
RECURSIVE parseLoop(_, _, _, _)
parseLoop(lines, i, pd, currentSection) ==
    IF i > Len(lines) THEN [err |-> Nil, m |-> pd]
    ELSE
      LET line == TrimSpace(lines[i]) IN
      IF line = Str0 THEN parseLoop(lines, i + 1, pd, currentSection)
      ELSE IF IsHeaderLine(line) THEN
        LET sectionName == SectionNameOf(line) IN
        IF sectionName = Str0 THEN [err |-> ErrSectionIsEmpty, m |-> EmptyMap]
        ELSE parseLoop(lines, i + 1, DeclareSection(pd, sectionName), sectionName)
      ELSE IF Contains(line, "=") THEN
        IF IsCommentLine(line) THEN [err |-> ErrCommentOnNewLine, m |-> EmptyMap]
        ELSE
          LET r == StoreKeyValue(pd, currentSection, line) IN
          IF r.err # Nil THEN [err |-> r.err, m |-> EmptyMap]
          ELSE parseLoop(lines, i + 1, r.m, currentSection)
      ELSE parseLoop(lines, i + 1, pd, currentSection)

\* parseLines reading on after an error and returning the last error met
parseLinesLastError(lines) ==
    LET r == parseLoop(lines, 1, EmptyMap, Str0)
        last == parseLoop(<<lines[Len(lines)]>>, 1, EmptyMap, Str0)
    IN  IF r.err # Nil /\ lines # <<>> /\ last.err \notin {Nil, Panic}
        THEN last
        ELSE r

\* parseLines: a new map, no section yet, every line in order
parseLines(lines) == parseLoop(lines, 1, EmptyMap, Str0)

----------------------------------------------------------------------------
(* The Parser's methods, as functions of the Parser they are called on *)

\* NewParser()
NewParser == [parsedData |-> EmptyMap, nilMap |-> FALSE]

\* Parser{}
ZeroParser == [parsedData |-> EmptyMap, nilMap |-> TRUE]

\* LoadFromString storing what parseLines returned also when it failed
LoadFromStringStoresAlways(q, text) ==
    IF text = Str0 THEN [p |-> q, err |-> ErrEmptyString]
    ELSE
      LET r == parseLines(Split(text, "\n")) IN
      IF r.err = Panic THEN [p |-> q, err |-> r.err]
      ELSE [p |-> [parsedData |-> r.m, nilMap |-> r.err # Nil], err |-> r.err]

\* LoadFromString taking a text of white space only for an empty one
LoadFromStringBlankIsEmpty(q, text) ==
    IF TrimSpace(text) = Str0 THEN [p |-> q, err |-> ErrEmptyString]
    ELSE
      LET r == parseLines(Split(text, "\n")) IN
      IF r.err # Nil THEN [p |-> q, err |-> r.err]
      ELSE [p |-> [parsedData |-> r.m, nilMap |-> FALSE], err |-> Nil]

\* LoadFromString reading the lines into the map the Parser holds
LoadFromStringIntoHeld(q, text) ==
    IF text = Str0 THEN [p |-> q, err |-> ErrEmptyString]
    ELSE
      LET r == parseLoop(Split(text, "\n"), 1, q.parsedData, Str0) IN
      IF r.err # Nil THEN [p |-> q, err |-> r.err]
      ELSE [p |-> [parsedData |-> r.m, nilMap |-> FALSE], err |-> Nil]

\* LoadFromString: the Parser after the call, and the error returned
LoadFromStringOf(q, text) ==
    IF text = Str0 THEN [p |-> q, err |-> ErrEmptyString]
    ELSE
      LET r == parseLines(Split(text, "\n")) IN
      IF r.err # Nil THEN [p |-> q, err |-> r.err]
      ELSE [p |-> [parsedData |-> r.m, nilMap |-> FALSE], err |-> Nil]

\* what the error LoadFromString returns for the text holds besides its
\* kind: parseLines returns the error values of the package themselves
\* (return nil, ErrKeyIsEmpty, and so on) and LoadFromString hands them on, so
\* no text of the line, its number, the section or the key comes with them
LoadErrorContext(text) == Str0

\* Set making a new map for the section at every call
SetOfSectionAnew(q, sectionName, key, value) ==
    IF sectionName = Str0 THEN [p |-> q, err |-> ErrSectionIsEmpty]
    ELSE IF key = Str0 THEN [p |-> q, err |-> ErrKeyIsEmpty]
    ELSE IF q.nilMap THEN [p |-> q, err |-> Panic]
    ELSE
      LET m1 == MapPut(q.parsedData, sectionName, EmptyMap)
      IN  [p |-> [q EXCEPT !.parsedData =
                     [m1 EXCEPT ![sectionName] = MapPut(@, key, value)]],
           err |-> Nil]

\* Set making the section before it looks at the key
SetOfSectionBeforeKey(q, sectionName, key, value) ==
    IF sectionName = Str0 THEN [p |-> q, err |-> ErrSectionIsEmpty]
    ELSE IF q.nilMap THEN [p |-> q, err |-> Panic]
    ELSE
      LET m1 == IF sectionName \in DOMAIN q.parsedData THEN q.parsedData
                ELSE MapPut(q.parsedData, sectionName, EmptyMap)
      IN  IF key = Str0
          THEN [p |-> [q EXCEPT !.parsedData = m1], err |-> ErrKeyIsEmpty]
          ELSE [p |-> [q EXCEPT !.parsedData =
                         [m1 EXCEPT ![sectionName] = MapPut(@, key, value)]],
                err |-> Nil]

\* Set without the check of the key
SetOfAnyKey(q, sectionName, key, value) ==
    IF sectionName = Str0 THEN [p |-> q, err |-> ErrSectionIsEmpty]
    ELSE IF q.nilMap THEN [p |-> q, err |-> Panic]
    ELSE
      LET m1 == IF sectionName \in DOMAIN q.parsedData THEN q.parsedData
                ELSE MapPut(q.parsedData, sectionName, EmptyMap)
      IN  [p |-> [q EXCEPT !.parsedData =
                     [m1 EXCEPT ![sectionName] = MapPut(@, key, value)]],
           err |-> Nil]

\* Set: the Parser after the call, and the error returned
SetOf(q, sectionName, key, value) ==
    IF sectionName = Str0 THEN [p |-> q, err |-> ErrSectionIsEmpty]
    ELSE IF key = Str0 THEN [p |-> q, err |-> ErrKeyIsEmpty]
    ELSE IF q.nilMap THEN [p |-> q, err |-> Panic]
    ELSE
      LET m1 == IF sectionName \in DOMAIN q.parsedData THEN q.parsedData
                ELSE MapPut(q.parsedData, sectionName, EmptyMap)
      IN  [p |-> [q EXCEPT !.parsedData =
                     [m1 EXCEPT ![sectionName] = MapPut(@, key, value)]],
           err |-> Nil]

\* Get looking up the key in whatever the section lookup gave
GetOfKeyOnly(q, sectionName, key) ==
    IF sectionName \notin DOMAIN q.parsedData
        THEN [val |-> Str0, err |-> ErrKeyNotFound]
    ELSE IF key \notin DOMAIN q.parsedData[sectionName]
        THEN [val |-> Str0, err |-> ErrKeyNotFound]
    ELSE [val |-> q.parsedData[sectionName][key], err |-> Nil]

\* Get: the value and the error returned; a nil map is read as an empty one
GetOf(q, sectionName, key) ==
    IF sectionName \notin DOMAIN q.parsedData
        THEN [val |-> Str0, err |-> ErrSectionNotFound]
    ELSE IF key \notin DOMAIN q.parsedData[sectionName]
        THEN [val |-> Str0, err |-> ErrKeyNotFound]
    ELSE [val |-> q.parsedData[sectionName][key], err |-> Nil]

\* the orders a range over a map with key set S can take
Perms(S) ==
    {f \in [1..Cardinality(S) -> S] : \A i, j \in DOMAIN f : f[i] = f[j] => i = j}

RECURSIVE RenderProperties(_, _)
RenderProperties(properties, keys) ==
    IF keys = <<>> THEN Str0
    ELSE Head(keys) \o <<"=">> \o properties[Head(keys)] \o <<"\n">>
         \o RenderProperties(properties, Tail(keys))

RECURSIVE RenderSections(_, _, _)
RenderSections(m, sections, keyOrder) ==
    IF sections = <<>> THEN Str0
    ELSE <<"[">> \o Head(sections) \o <<"]", "\n">>
         \o RenderProperties(m[Head(sections)], keyOrder[Head(sections)])
         \o RenderSections(m, Tail(sections), keyOrder)

KeyOrders(m) ==
    {f \in [DOMAIN m -> UNION {Perms(DOMAIN m[s]) : s \in DOMAIN m}] :
        \A s \in DOMAIN m : f[s] \in Perms(DOMAIN m[s])}

\* GetSectionNames(): every slice the call can return
GetSectionNamesOf(q) == Perms(DOMAIN q.parsedData)

\* GetSections(): the map the Parser holds
GetSectionsOf(q) == q.parsedData

\* String() without the trimming of the last newline
StringsOfUntrimmed(q) ==
    {RenderSections(q.parsedData, sections, keyOrder) :
        sections \in Perms(DOMAIN q.parsedData), keyOrder \in KeyOrders(q.parsedData)}

\* String(): every text the call can return (map iteration order is not fixed)
StringsOf(q) ==
    {TrimSuffix(RenderSections(q.parsedData, sections, keyOrder), <<"\n">>) :
        sections \in Perms(DOMAIN q.parsedData), keyOrder \in KeyOrders(q.parsedData)}

----------------------------------------------------------------------------
(* Inputs *)

RECURSIVE Join(_, _)
Join(lines, c) ==
    IF Len(lines) = 1 THEN Head(lines)
    ELSE Head(lines) \o <<c>> \o Join(Tail(lines), c)

\* the lines a text of the model is made of
Lines ==
    { <<>>,
      <<"[", "a", "]">>,
      <<" ", "[", " ", "b", " ", "]", " ">>,
      <<"[", "]">>,
      <<"[", " ", "]">>,
      <<"#", "a", "=", "b">>,
      <<";", "a">>,
      <<"a", "=", "b">>,
      <<" ", "a", " ", "=", " ", "a", " ">>,
      <<"b", "=", "a">>,
      <<" ", "=", "b">>,
      <<"a", "=", " ">>,
      <<"a">>,
      <<"[", "a">>,
      <<"[", "a", "=", "b", "]", "=", "a">> }

LineSeqs(n) == UNION {[1..k -> Lines] : k \in 1..n}

\* the texts of up to n lines; the one line <<>> alone is the empty text
Texts(n) == {Join(ls, "\n") : ls \in LineSeqs(n)}

\* the lines of the texts of SpecKV: sections, re-declared sections and
\* assignments, with and without spaces around their parts
KVLines ==
    { <<>>,
      <<"[", "a", "]">>,
      <<" ", "[", " ", "b", " ", "]", " ">>,
      <<"a", "=", "b">>,
      <<" ", "a", " ", "=", " ", "a", " ">>,
      <<"b", "=", "a">>,
      <<"a", "=", "b", "=", "a">> }

KVTexts(n) == {Join(ls, "\n") : ls \in UNION {[1..k -> KVLines] : k \in 1..n}}

\* the section names, keys and values handed to Set
SetNames == {Str0, <<"a">>, <<"b">>}
SetKeys == {Str0, <<"a">>, <<"b">>}
SetValues == {Str0, <<"b">>}

\* the section names and keys handed to Get
GetNames == {<<"a">>, <<"b">>}
GetKeys == {<<"a">>, <<"b">>}

----------------------------------------------------------------------------
(* The state machine *)

Init ==
    /\ p \in {NewParser, ZeroParser}
    /\ op = "new"
    /\ data = Str0
    /\ args = <<>>
    /\ err = Nil
    /\ ret = Str0

\* a panic ends the program
Running == err # Panic

LoadFromString(text) ==
    /\ Running
    /\ LET r == LoadFromStringOf(p, text) IN
         /\ p' = r.p
         /\ err' = r.err
    /\ op' = "LoadFromString"
    /\ args' = <<>>
    /\ ret' = Str0
    /\ UNCHANGED data

Set(sectionName, key, value) ==
    /\ Running
    /\ LET r == SetOf(p, sectionName, key, value) IN
         /\ p' = r.p
         /\ err' = r.err
    /\ op' = "Set"
    /\ args' = <<sectionName, key, value>>
    /\ ret' = Str0
    /\ UNCHANGED data

String ==
    /\ Running
    /\ \E str \in StringsOf(p) : ret' = str
    /\ op' = "String"
    /\ err' = Nil
    /\ args' = <<>>
    /\ UNCHANGED <<p, data>>

Get(sectionName, key) ==
    /\ Running
    /\ LET r == GetOf(p, sectionName, key) IN
         /\ ret' = r.val
         /\ err' = r.err
    /\ op' = "Get"
    /\ args' = <<sectionName, key>>
    /\ UNCHANGED <<p, data>>

GetSectionNames ==
    /\ Running
    /\ \E sectionNames \in GetSectionNamesOf(p) : ret' = sectionNames
    /\ op' = "GetSectionNames"
    /\ err' = Nil
    /\ args' = <<>>
    /\ UNCHANGED <<p, data>>

GetSections ==
    /\ Running
    /\ ret' = GetSectionsOf(p)
    /\ op' = "GetSections"
    /\ err' = Nil
    /\ args' = <<>>
    /\ UNCHANGED <<p, data>>

Next ==
    \/ \E text \in Texts(MaxCallLines) : LoadFromString(text)
    \/ \E s \in SetNames, k \in SetKeys, v \in SetValues : Set(s, k, v)
    \/ \E s \in GetNames, k \in GetKeys : Get(s, k)
    \/ GetSectionNames
    \/ GetSections
    \/ String

Spec == Init /\ [][Next]_vars

\* one LoadFromString call on a new Parser, over every text of up to MaxLines lines
InitLoad ==
    /\ p = NewParser
    /\ op = "new"
    /\ data \in Texts(MaxLines)
    /\ args = <<>>
    /\ err = Nil
    /\ ret = Str0

NextLoad == op = "new" /\ LoadFromString(data)

SpecLoad == InitLoad /\ [][NextLoad]_vars

\* a Parser that holds a Document: NewParser, then Set("a", "k", "b") and
\* Set("c", "a", "b")
HeldParser ==
    SetOf(SetOf(NewParser, <<"a">>, <<"k">>, <<"b">>).p,
          <<"c">>, <<"a">>, <<"b">>).p

\* one LoadFromString call on a Parser that holds a Document, over every text
\* of up to MaxLines lines
InitHeld ==
    /\ p = HeldParser
    /\ op = "new"
    /\ data \in Texts(MaxLines)
    /\ args = <<>>
    /\ err = Nil
    /\ ret = Str0

NextHeld == op = "new" /\ LoadFromString(data)

SpecHeld == InitHeld /\ [][NextHeld]_vars

\* one LoadFromString call on a new Parser, over every text of up to
\* MaxKVLines lines of sections and assignments
InitKV ==
    /\ p = NewParser
    /\ op = "new"
    /\ data \in KVTexts(MaxKVLines)
    /\ args = <<>>
    /\ err = Nil
    /\ ret = Str0

NextKV == op = "new" /\ LoadFromString(data)

SpecKV == InitKV /\ [][NextKV]_vars

----------------------------------------------------------------------------
(* The vocabulary of the claims: how a line of the input text reads *)

\* the lines of the text handed to the load
InputLines == Split(data, "\n")

Loaded == op = "LoadFromString"

\* a line of nothing but white space
LineIsBlank(l) == TrimSpace(l) = Str0

\* a line whose first character that is not white space is ';' or '#'
LineIsComment(l) ==
    LET t == TrimLeft(l) IN t # Str0 /\ t[1] \in {";", "#"}

\* a line that is, white space aside, '[' ... ']'
LineIsHeader(l) ==
    LET t == TrimSpace(l) IN Len(t) >= 2 /\ t[1] = "[" /\ t[Len(t)] = "]"

\* the text between the brackets of a header line
HeaderInterior(l) == LET t == TrimSpace(l) IN SubSeq(t, 2, Len(t) - 1)

LineIsEmptyHeader(l) == LineIsHeader(l) /\ TrimSpace(HeaderInterior(l)) = Str0

\* a key-value line: it holds '=' and is neither a comment nor a header
LineIsKeyValue(l) ==
    /\ \E i \in 1..Len(l) : l[i] = "="
    /\ ~LineIsComment(l)
    /\ ~LineIsHeader(l)

FirstEq(l) == CHOOSE i \in 1..Len(l) : l[i] = "=" /\ \A j \in 1..(i - 1) : l[j] # "="

\* the key of a key-value line: what stands before its first '=', trimmed
LineKey(l) == TrimSpace(SubSeq(l, 1, FirstEq(l) - 1))

\* the value of a key-value line: what stands after its first '=', trimmed
LineValue(l) == TrimSpace(SubSeq(l, FirstEq(l) + 1, Len(l)))

Prefix(ls, n) == SubSeq(ls, 1, n)

\* the lines without line j
Without(ls, j) == SubSeq(ls, 1, j - 1) \o SubSeq(ls, j + 1, Len(ls))

\* the lines up to line n are read without an error
ReadsTo(ls, n) == parseLines(Prefix(ls, n)).err = Nil

\* a header with a name stands among the first n lines
SectionOpen(ls, n) ==
    \E i \in 1..n : LineIsHeader(ls[i]) /\ ~LineIsEmptyHeader(ls[i])

ReturnedErrors ==
    {ErrEmptyString, ErrSectionIsEmpty, ErrKeyIsEmpty, ErrValueIsEmpty,
     ErrCommentOnNewLine}

----------------------------------------------------------------------------
(* C1 *)

\* C1: a LoadFromString call that returns an error leaves the Parser's
\* Document exactly as it was before the call, whatever the Parser held.
C1_FailedLoadKeepsDocument ==
    [][(op' = "LoadFromString" /\ err' \in ReturnedErrors) => p' = p]_vars

\* a failed load (misplaced comment) after which a Document with an entry is still held
C1_Witness ==
    /\ Loaded
    /\ err = ErrCommentOnNewLine
    /\ <<"a">> \in DOMAIN p.parsedData
    /\ p.parsedData[<<"a">>] # EmptyMap

----------------------------------------------------------------------------
(* C2 *)

\* a key-value line stands before the first section header
KeyValueBeforeFirstHeader(ls) ==
    \E i \in 1..Len(ls) :
        /\ LineIsKeyValue(ls[i])
        /\ \A j \in 1..(i - 1) : ~LineIsHeader(ls[j])

\* C2: a text with a key-value line before the first section header makes
\* LoadFromString return an error value (it does not crash and returns no
\* Document), and nothing is stored. The code has no KeyOutsideSection value;
\* the statement asks only for some returned error.
C2_KeyOutsideSectionReturnsError ==
    (Loaded /\ KeyValueBeforeFirstHeader(InputLines))
        => (err \in ReturnedErrors /\ p = NewParser)

----------------------------------------------------------------------------
(* C3 *)

\* C3: after a successful load, every text String() can return loads again
\* without error into a Document equal to the one held.
C3_ReloadOfStringIsIdentity ==
    (Loaded /\ err = Nil) =>
        \A str \in StringsOf(p) :
            LoadFromStringOf(p, str) = [p |-> p, err |-> Nil]

----------------------------------------------------------------------------
(* C4 *)

\* C4: LoadFromString returns ErrEmptyString for the empty text and for no
\* other text (not for newlines, blank lines or comments only).
C4_EmptyStringOnlyForEmptyText ==
    Loaded => (err = ErrEmptyString <=> data = Str0)

\* the empty text was loaded and rejected as empty input
C4_Witness == Loaded /\ data = Str0 /\ err = ErrEmptyString

----------------------------------------------------------------------------
(* C5 *)

\* a header that has a name, to stand where a header without one stood
NamedHeader == <<"[", "s", "]">>

WithNamedHeaders(ls) ==
    [i \in 1..Len(ls) |-> IF LineIsEmptyHeader(ls[i]) THEN NamedHeader ELSE ls[i]]

\* every line is valid but for the empty headers: with a name put into each
\* of them the lines are read without an error
OtherwiseValid(ls) == parseLines(WithNamedHeaders(ls)).err = Nil

\* C5: a text whose lines are otherwise valid and which holds a header with
\* an empty interior ('[]', or only white space between the brackets) fails
\* with ErrSectionIsEmpty, wherever the header stands.
C5_EmptySectionNameRejected ==
    (/\ Loaded
     /\ data # Str0
     /\ \E i \in 1..Len(InputLines) : LineIsEmptyHeader(InputLines[i])
     /\ OtherwiseValid(InputLines))
        => err = ErrSectionIsEmpty

\* '[ ]' after a valid section with a key was rejected
C5_Witness ==
    /\ Loaded
    /\ InputLines = << <<"[", "a", "]">>, <<"a", "=", "b">>, <<"[", " ", "]">> >>
    /\ err = ErrSectionIsEmpty

----------------------------------------------------------------------------
(* C6 *)

\* C6: when the lines before it are read without error and a section is
\* open, a key-value line whose key is empty after trimming fails the load
\* with ErrKeyIsEmpty, and one with a key but a value empty after trimming
\* fails it with ErrValueIsEmpty; nothing is stored.
C6_EmptyKeyEmptyValue ==
    (Loaded /\ data # Str0) =>
        \A i \in 1..Len(InputLines) :
            (/\ ReadsTo(InputLines, i - 1)
             /\ SectionOpen(InputLines, i - 1)
             /\ LineIsKeyValue(InputLines[i]))
            =>
            /\ LineKey(InputLines[i]) = Str0
                 => (err = ErrKeyIsEmpty /\ p = NewParser)
            /\ (LineKey(InputLines[i]) # Str0 /\ LineValue(InputLines[i]) = Str0)
                 => (err = ErrValueIsEmpty /\ p = NewParser)

\* in an open section that holds a key already, 'a= ' was rejected for its value
C6_Witness ==
    /\ Loaded
    /\ InputLines = << <<"[", "a", "]">>, <<"a", "=", "b">>, <<"a", "=", " ">> >>
    /\ err = ErrValueIsEmpty

----------------------------------------------------------------------------
(* C7 *)

\* line j is the first line that is not blank after the header at line i
FirstAfterHeader(ls, i, j) ==
    /\ i < j
    /\ LineIsHeader(ls[i])
    /\ ~LineIsEmptyHeader(ls[i])
    /\ \A x \in (i + 1)..(j - 1) : LineIsBlank(ls[x])

\* C7: when the first line that is not blank after a section header is a
\* comment line, with or without '=' in it, the load fails with
\* ErrCommentOnNewLine (the lines before the comment being read without error).
C7_CommentAfterHeaderRejected ==
    (Loaded /\ data # Str0) =>
        \A j \in 1..Len(InputLines) :
            (/\ LineIsComment(InputLines[j])
             /\ ReadsTo(InputLines, j - 1)
             /\ \E i \in 1..(j - 1) : FirstAfterHeader(InputLines, i, j))
            => err = ErrCommentOnNewLine

----------------------------------------------------------------------------
(* C8 *)

\* line j stands before the first section header
BeforeFirstHeader(ls, j) == \A i \in 1..(j - 1) : ~LineIsHeader(ls[i])

\* line j stands after a blank line that ends a section's run of key-value lines
AfterEndOfRun(ls, j) ==
    \E b \in 2..(j - 1) :
        /\ LineIsBlank(ls[b])
        /\ LineIsKeyValue(ls[b - 1])
        /\ \A x \in (b + 1)..(j - 1) : LineIsBlank(ls[x]) \/ LineIsComment(ls[x])

\* C8: a comment line before the first header, or after a blank line that
\* ends a section's key-value run, is ignored: the load ends as it does on
\* the same lines without the comment (same error or none, same Document).
C8_CommentBetweenSectionsIgnored ==
    (Loaded /\ data # Str0) =>
        \A j \in 1..Len(InputLines) :
            (/\ LineIsComment(InputLines[j])
             /\ ReadsTo(InputLines, j - 1)
             /\ (BeforeFirstHeader(InputLines, j) \/ AfterEndOfRun(InputLines, j)))
            =>
            LET r == parseLines(Without(InputLines, j)) IN
              /\ err = r.err
              /\ err = Nil => p.parsedData = r.m

----------------------------------------------------------------------------
(* C9 *)

\* a line that is not blank, not a comment, not a header and holds no '='
LineIsMalformed(l) ==
    /\ ~LineIsBlank(l)
    /\ ~LineIsComment(l)
    /\ ~LineIsHeader(l)
    /\ \A i \in 1..Len(l) : l[i] # "="

\* C9: a text that holds a line which is not blank, not a comment, not a
\* header and has no '=' makes LoadFromString fail; the line is never
\* skipped silently. The code has no MalformedLine value; the statement asks
\* only that the load does not succeed.
C9_MalformedLineRejected ==
    (/\ Loaded
     /\ data # Str0
     /\ \E i \in 1..Len(InputLines) : LineIsMalformed(InputLines[i]))
        => err # Nil

----------------------------------------------------------------------------
(* C10 *)

\* C10: the error of a load is the error of its first offending line: when
\* the first n lines of the text already make the parse fail, the whole text
\* fails in the same way, whatever the later lines hold.
C10_FirstErrorDecides ==
    (Loaded /\ data # Str0) =>
        \A n \in 1..Len(InputLines) :
            parseLines(Prefix(InputLines, n)).err # Nil
                => err = parseLines(Prefix(InputLines, n)).err

\* the second line has no key, the third is a header without a name: the
\* load failed for the key
C10_Witness ==
    /\ Loaded
    /\ InputLines = << <<"[", "a", "]">>, <<" ", "=", "b">>, <<"[", "]">> >>
    /\ err = ErrKeyIsEmpty


-----------------------------------------------------------------------------
(* C11 *)

\* the name of the section line j stands in: that of the nearest header
\* above it
LineSection(ls, j) ==
    LET h == CHOOSE i \in 1..(j - 1) :
                 /\ LineIsHeader(ls[i])
                 /\ \A i2 \in (i + 1)..(j - 1) : ~LineIsHeader(ls[i2])
    IN  TrimSpace(HeaderInterior(ls[h]))

\* line j assigns key k in section s
Assigns(ls, j, s, k) ==
    /\ j \in 1..Len(ls)
    /\ LineIsKeyValue(ls[j])
    /\ SectionOpen(ls, j - 1)
    /\ LineSection(ls, j) = s
    /\ LineKey(ls[j]) = k

\* line j is the last line that assigns key k in section s
LastAssigns(ls, j, s, k) ==
    /\ Assigns(ls, j, s, k)
    /\ \A j2 \in (j + 1)..Len(ls) : ~Assigns(ls, j2, s, k)

\* the line is written with one '='
OneEq(l) == Cardinality({i \in 1..Len(l) : l[i] = "="}) = 1

\* section s of the Document holds key k with value v
Holds(s, k, v) ==
    /\ s \in DOMAIN p.parsedData
    /\ k \in DOMAIN p.parsedData[s]
    /\ p.parsedData[s][k] = v

\* C11: when a key is assigned more than once in one section of a text that
\* loads, the Document holds for it the value of the last of its assignments
\* (an assignment written with one '='); the Document being a map of maps,
\* the key occurs in it once.
C11_LastAssignmentWins ==
    (Loaded /\ err = Nil) =>
        \A i, j \in 1..Len(InputLines) :
            ( /\ i < j
              /\ LineIsKeyValue(InputLines[j])
              /\ SectionOpen(InputLines, j - 1)
              /\ OneEq(InputLines[j])
              /\ LastAssigns(InputLines, j, LineSection(InputLines, j),
                             LineKey(InputLines[j]))
              /\ Assigns(InputLines, i, LineSection(InputLines, j),
                         LineKey(InputLines[j])) )
            => Holds(LineSection(InputLines, j), LineKey(InputLines[j]),
                     LineValue(InputLines[j]))

\* a text was loaded in which a key is assigned twice in a section, with two
\* different values, and the Document holds the second
C11_Witness ==
    /\ Loaded
    /\ err = Nil
    /\ \E i, j \in 1..Len(InputLines) :
        /\ i < j
        /\ LineIsKeyValue(InputLines[j])
        /\ SectionOpen(InputLines, j - 1)
        /\ OneEq(InputLines[j])
        /\ LastAssigns(InputLines, j, LineSection(InputLines, j),
                       LineKey(InputLines[j]))
        /\ Assigns(InputLines, i, LineSection(InputLines, j),
                   LineKey(InputLines[j]))
        /\ OneEq(InputLines[i])
        /\ LineValue(InputLines[i]) # LineValue(InputLines[j])
        /\ Holds(LineSection(InputLines, j), LineKey(InputLines[j]),
                 LineValue(InputLines[j]))

-----------------------------------------------------------------------------
(* C12 *)

\* the key-value line with no space around its key, its '=' and its value
Squeezed(l) == LineKey(l) \o <<"=">> \o LineValue(l)

\* the key-value line with spaces around its key, its '=' and its value
Padded(l) ==
    <<" ", " ">> \o LineKey(l) \o <<" ", " ", "=", " ", " ">> \o LineValue(l)
        \o <<" ", " ">>

\* the lines with line j replaced by l
Replaced(ls, j, l) == [ls EXCEPT ![j] = l]

\* C12: the spaces around the key, the '=' and the value of a key-value line
\* in an open section are of no account: the text with the line written
\* without them, or with more of them, is read to the same result, the same
\* Document or the same error.
C12_SpacesAroundKeyValueIgnored ==
    (Loaded /\ data # Str0) =>
        \A j \in 1..Len(InputLines) :
            (LineIsKeyValue(InputLines[j]) /\ SectionOpen(InputLines, j - 1)) =>
                \A l \in {Squeezed(InputLines[j]), Padded(InputLines[j])} :
                    LET r == parseLines(Replaced(InputLines, j, l))
                    IN  /\ r.err = err
                        /\ err = Nil => r.m = p.parsedData

\* a text was loaded that holds, in a section, a key-value line written with
\* spaces, and the Document holds its key and value without them
C12_Witness ==
    /\ Loaded
    /\ err = Nil
    /\ \E j \in 1..Len(InputLines) :
        /\ LineIsKeyValue(InputLines[j])
        /\ SectionOpen(InputLines, j - 1)
        /\ InputLines[j] # Squeezed(InputLines[j])
        /\ Holds(LineSection(InputLines, j), LineKey(InputLines[j]),
                 LineValue(InputLines[j]))

-----------------------------------------------------------------------------
(* C20 *)

\* lines i and j are headers of one name, j the later of them
Redeclared(ls, i, j) ==
    /\ i < j
    /\ LineIsHeader(ls[i]) /\ ~LineIsEmptyHeader(ls[i])
    /\ LineIsHeader(ls[j])
    /\ TrimSpace(HeaderInterior(ls[i])) = TrimSpace(HeaderInterior(ls[j]))

\* C20: a header whose name an earlier header has is no offence: when the
\* lines above it are read without an error, so are the lines up to it. When
\* such a text loads, the Document holds under that name one section, with
\* the key of every assignment made under any of the headers of the name,
\* each key with the value of the last of its assignments (one written with
\* one '=').
C20_RedeclaredSectionMerges ==
    Loaded =>
        \A i, j \in 1..Len(InputLines) :
            Redeclared(InputLines, i, j) =>
                /\ ReadsTo(InputLines, j - 1) => ReadsTo(InputLines, j)
                /\ err = Nil =>
                    LET s == TrimSpace(HeaderInterior(InputLines[j]))
                    IN  /\ s \in DOMAIN p.parsedData
                        /\ \A x \in 1..Len(InputLines) :
                            ( /\ LineIsKeyValue(InputLines[x])
                              /\ LineSection(InputLines, x) = s )
                            => /\ LineKey(InputLines[x]) \in DOMAIN p.parsedData[s]
                               /\ ( /\ OneEq(InputLines[x])
                                    /\ LastAssigns(InputLines, x, s,
                                                   LineKey(InputLines[x])) )
                                  => Holds(s, LineKey(InputLines[x]),
                                           LineValue(InputLines[x]))

\* a text was loaded in which a section is declared twice, with one key
\* assigned under the first header and another under the second, and the
\* Document holds both in the section
C20_Witness ==
    /\ Loaded
    /\ err = Nil
    /\ \E i, x, j, y \in 1..Len(InputLines) :
        /\ i < x /\ x < j /\ j < y
        /\ Redeclared(InputLines, i, j)
        /\ Assigns(InputLines, x, TrimSpace(HeaderInterior(InputLines[j])),
                   LineKey(InputLines[x]))
        /\ Assigns(InputLines, y, TrimSpace(HeaderInterior(InputLines[j])),
                   LineKey(InputLines[y]))
        /\ LineKey(InputLines[x]) # LineKey(InputLines[y])
        /\ Holds(TrimSpace(HeaderInterior(InputLines[j])),
                 LineKey(InputLines[x]), LineValue(InputLines[x]))
        /\ Holds(TrimSpace(HeaderInterior(InputLines[j])),
                 LineKey(InputLines[y]), LineValue(InputLines[y]))

-----------------------------------------------------------------------------
(* C13 *)

\* the calls of the Parser other than LoadFromString, which reads nothing of
\* the Parser it is called on
CallsOnHeld == {"Get", "Set", "GetSectionNames", "GetSections", "String"}

\* C13: a Parser is ready to use whether NewParser made it or it is the zero
\* value: Get, Set, GetSectionNames, GetSections and String return, and Set
\* with a section name and a key that are not empty returns no error and
\* stores the value.
C13_ZeroValueReadyToUse ==
    /\ op \in CallsOnHeld => err # Panic
    /\ (op = "Set" /\ args[1] # Str0 /\ args[2] # Str0) =>
          /\ err = Nil
          /\ Holds(args[1], args[2], args[3])

-----------------------------------------------------------------------------
(* C14 *)

\* the Document after the step holds every entry of the Document before it
\* other than (s, k), with its value, and no entry more than those and (s, k)
OtherEntriesKept(s, k) ==
    /\ DOMAIN p'.parsedData = DOMAIN p.parsedData \cup {s}
    /\ \A s2 \in DOMAIN p'.parsedData :
        /\ DOMAIN p'.parsedData[s2] =
              (IF s2 \in DOMAIN p.parsedData THEN DOMAIN p.parsedData[s2] ELSE {})
                  \cup (IF s2 = s THEN {k} ELSE {})
        /\ \A k2 \in DOMAIN p'.parsedData[s2] :
              (s2 # s \/ k2 # k) => p'.parsedData[s2][k2] = p.parsedData[s2][k2]

\* C14: on a Parser whose map NewParser (or a load) has made, Set with a
\* section name and a key that are not empty returns no error, Get of that
\* section and key then returns the value, whether the section was there or
\* Set made it, and every other entry of the Document is as it was.
C14_SetStoresValue ==
    [][ (op' = "Set" /\ ~p.nilMap /\ args'[1] # Str0 /\ args'[2] # Str0) =>
            /\ err' = Nil
            /\ GetOf(p', args'[1], args'[2]) = [val |-> args'[3], err |-> Nil]
            /\ OtherEntriesKept(args'[1], args'[2]) ]_vars

\* Set has put a second key into a section, of a Document with another
\* section besides, and the first key has kept its value
C14_Witness ==
    /\ op = "Set"
    /\ err = Nil
    /\ args = << <<"a">>, <<"b">>, <<"b">> >>
    /\ <<"b">> \in DOMAIN p.parsedData
    /\ Holds(<<"a">>, <<"b">>, <<"b">>)
    /\ Holds(<<"a">>, <<"a">>, Str0)

-----------------------------------------------------------------------------
(* C15 *)

\* C15: Set with an empty section name returns ErrSectionIsEmpty; with a
\* section name and an empty key it returns ErrKeyIsEmpty; either way the
\* Parser holds what it held.
C15_SetRejectsEmptyNames ==
    [][ op' = "Set" =>
            /\ args'[1] = Str0 => (err' = ErrSectionIsEmpty /\ p' = p)
            /\ (args'[1] # Str0 /\ args'[2] = Str0) =>
                  (err' = ErrKeyIsEmpty /\ p' = p) ]_vars

\* Set was called with an empty key and the name of a section the Document,
\* which is not empty, does not hold, and returned ErrKeyIsEmpty
C15_Witness ==
    /\ op = "Set"
    /\ args[1] # Str0 /\ args[2] = Str0
    /\ err = ErrKeyIsEmpty
    /\ p.parsedData # EmptyMap
    /\ args[1] \notin DOMAIN p.parsedData

-----------------------------------------------------------------------------
(* C16 *)

\* C16: Get returns ErrSectionNotFound and the empty string when the
\* Document has no section of the name, ErrKeyNotFound and the empty string
\* when the section has no such key, and otherwise the stored value and no
\* error; the Parser holds after the call what it held before.
C16_GetReturns ==
    [][ op' = "Get" =>
            /\ p' = p
            /\ LET s == args'[1]
                   k == args'[2]
               IN  IF s \notin DOMAIN p.parsedData
                       THEN err' = ErrSectionNotFound /\ ret' = Str0
                   ELSE IF k \notin DOMAIN p.parsedData[s]
                       THEN err' = ErrKeyNotFound /\ ret' = Str0
                   ELSE err' = Nil /\ ret' = p.parsedData[s][k] ]_vars

\* Get was called for a section the Document, which is not empty, does not
\* hold, and returned ErrSectionNotFound
C16_Witness ==
    /\ op = "Get"
    /\ err = ErrSectionNotFound
    /\ ret = Str0
    /\ p.parsedData # EmptyMap
    /\ args[1] \notin DOMAIN p.parsedData

-----------------------------------------------------------------------------
(* C17 *)

\* the names of the headers of the text
DeclaredSections(ls) ==
    {TrimSpace(HeaderInterior(ls[i])) : i \in {i \in 1..Len(ls) : LineIsHeader(ls[i])}}

\* the keys of the key-value lines of the text that stand in section s
DeclaredKeys(ls, s) ==
    {LineKey(ls[j]) :
        j \in {j \in 1..Len(ls) : /\ LineIsKeyValue(ls[j])
                                  /\ SectionOpen(ls, j - 1)
                                  /\ LineSection(ls, j) = s}}

\* C17: after a load that returned no error the Document holds the sections
\* the text declares and in each the keys the text assigns in it, these and
\* no others: of the sections and keys the Parser held before, none is left
\* that the text does not declare.
C17_LoadReplacesDocument ==
    (Loaded /\ err = Nil) =>
        /\ DOMAIN p.parsedData = DeclaredSections(InputLines)
        /\ \A s \in DOMAIN p.parsedData :
              DOMAIN p.parsedData[s] = DeclaredKeys(InputLines, s)

\* a text that declares section a, which the Parser held with another key,
\* was loaded with no error: the section is there with the key of the text,
\* and the key and the other section the Parser held are gone
C17_Witness ==
    /\ Loaded
    /\ err = Nil
    /\ HeldParser.parsedData[<<"a">>] = (<<"k">> :> <<"b">>)
    /\ <<"c">> \in DOMAIN HeldParser.parsedData
    /\ <<"a">> \in DOMAIN p.parsedData
    /\ DOMAIN p.parsedData[<<"a">>] = {<<"a">>}
    /\ <<"c">> \notin DOMAIN p.parsedData

-----------------------------------------------------------------------------
(* C18 *)

\* the lines of one section: its header line, then a line key=value for each
\* of its entries, in the order keys
SectionBlock(m, s, keys) ==
    << <<"[">> \o s \o <<"]">> >>
        \o [i \in 1..Len(keys) |-> keys[i] \o <<"=">> \o m[s][keys[i]]]

\* the lines of the sections in the order given, with the lines between put
\* between each section and the next
RECURSIVE Blocks(_, _, _, _)
Blocks(m, sections, keyOrder, between) ==
    IF sections = <<>> THEN <<>>
    ELSE IF Len(sections) = 1
        THEN SectionBlock(m, Head(sections), keyOrder[Head(sections)])
    ELSE SectionBlock(m, Head(sections), keyOrder[Head(sections)])
         \o between \o Blocks(m, Tail(sections), keyOrder, between)

\* the texts made of those lines, for every order of the sections and of the
\* keys of each
TextsOfBlocks(q, between) ==
    {LET lines == Blocks(q.parsedData, sections, keyOrder, between)
     IN  IF lines = <<>> THEN Str0 ELSE Join(lines, "\n") :
        sections \in Perms(DOMAIN q.parsedData), keyOrder \in KeyOrders(q.parsedData)}

\* C18 as the specification has it: String() returns, for the sections in
\* some order, the header line '[name]' of each followed by one line
\* 'key=value' for each of its entries, with a blank line between each
\* section and the next.
C18_StringBlankLineBetweenSections ==
    op = "String" => ret \in TextsOfBlocks(p, <<Str0>>)

\* C18: String() returns, for the sections in some order, the header line
\* '[name]' of each followed by one line 'key=value' for each of its entries;
\* a section follows the one before it on the next line, with no blank line
\* between them, and the text does not end with a newline.
C18_StringSectionsAdjacent ==
    op = "String" => ret \in TextsOfBlocks(p, <<>>)

\* String() was called on a Document of two sections, one of them with two
\* entries
C18_Witness ==
    /\ op = "String"
    /\ Cardinality(DOMAIN p.parsedData) = 2
    /\ \E s \in DOMAIN p.parsedData : Cardinality(DOMAIN p.parsedData[s]) = 2
    /\ ret \in TextsOfBlocks(p, <<>>)

-----------------------------------------------------------------------------
(* C19 *)

\* the errors LoadFromString returns for a line of the text
LineErrors ==
    {ErrSectionIsEmpty, ErrKeyIsEmpty, ErrValueIsEmpty, ErrCommentOnNewLine}

\* C19: the error LoadFromString returns for a line of the text holds,
\* besides its kind, what tells the offence: the line or its number, or the
\* name of the section or the key.
C19_LoadErrorsCarryContext ==
    (Loaded /\ err \in LineErrors) => LoadErrorContext(data) # Str0

-----------------------------------------------------------------------------
(* C21 *)

\* C21: a key-value line with two or more '=', in an open section and
\* reached without an error, is either refused with an error or split at its
\* first '=' alone: the value stored for its key is the whole of what stands
\* after the first '=', trimmed, never that text cut at the second '='.
C21_SplitAtFirstEqOnly ==
    (Loaded /\ data # Str0) =>
        \A j \in 1..Len(InputLines) :
            ( /\ LineIsKeyValue(InputLines[j])
              /\ ~OneEq(InputLines[j])
              /\ SectionOpen(InputLines, j - 1)
              /\ ReadsTo(InputLines, j - 1) )
            => LET r == parseLines(Prefix(InputLines, j))
                   s == LineSection(InputLines, j)
                   k == LineKey(InputLines[j])
               IN  \/ r.err \in ReturnedErrors
                   \/ /\ r.err = Nil
                      /\ s \in DOMAIN r.m
                      /\ k \in DOMAIN r.m[s]
                      /\ r.m[s][k] = LineValue(InputLines[j])

-----------------------------------------------------------------------------
(* C22 *)

\* C22: whatever calls of LoadFromString and Set were made, and whether they
\* returned an error or not, the Document has no section whose name is the
\* empty string and no section with a key that is the empty string.
C22_NoEmptyNames ==
    \A s \in DOMAIN p.parsedData :
        /\ s # Str0
        /\ \A k \in DOMAIN p.parsedData[s] : k # Str0

\* Set was called with an empty section name on a Document of two sections
\* that hold keys, and was refused
C22_Witness ==
    /\ op = "Set"
    /\ args[1] = Str0
    /\ err = ErrSectionIsEmpty
    /\ Cardinality(DOMAIN p.parsedData) = 2
    /\ \A s \in DOMAIN p.parsedData : p.parsedData[s] # EmptyMap

-----------------------------------------------------------------------------
(* C23 *)

\* C23: the text String() returns for a Document with at least one section,
\* one held by a Parser whose map NewParser or a load made, loads again with
\* no error into a Document equal to the one held.
C23_StringLoadsAgain ==
    (op = "String" /\ ~p.nilMap /\ p.parsedData # EmptyMap) =>
        LoadFromStringOf(NewParser, ret) = [p |-> p, err |-> Nil]

=============================================================================
